---- MODULE Spec2Model ----
(***************************************************************************)
(* WaveGrad data pipeline (data.py: AudioDataset, MelSpectrogramFixed) and *)
(* the inference script (inference.py) as state machines.                  *)
(*                                                                         *)
(* Spec           the dataset object and the mel transform applied to its  *)
(*                items                                                    *)
(* SpecInference  one run of the inference script                          *)
(***************************************************************************)
EXTENDS Integers, Sequences, FiniteSets, TLC

\* ------------------------------------------------------------------ bounds
MaxFiles == 2
MaxLen == 3
MaxHop == 2
MaxSeg == 2

\* sample rates a file can have; the configured rate is one of them (which
\* one is immaterial: the code only compares the two for equality)
Rates == {16000, 22050}
ConfigRates == {22050}

VARIABLES
    \* AudioDataset fields
    training, hop_length, segment_length, sample_rate, audio_paths,
    \* outcome of the last call made on the dataset / mel transform
    result,
    \* inference script
    pc, filelist, i, rtfs, events, fs, schedule, noise_schedule, config, error

dataVars == <<training, hop_length, segment_length, sample_rate, audio_paths, result>>
inferVars == <<pc, filelist, i, rtfs, events, fs, schedule, noise_schedule, config, error>>
vars == <<training, hop_length, segment_length, sample_rate, audio_paths, result,
          pc, filelist, i, rtfs, events, fs, schedule, noise_schedule, config, error>>

\* ------------------------------------------------------------ tensor helpers
Min(a, b) == IF a < b THEN a ELSE b
Max(a, b) == IF a > b THEN a ELSE b

RECURSIVE Prod(_)
Prod(s) == IF s = <<>> THEN 1 ELSE Head(s) * Prod(Tail(s))

Last(s) == s[Len(s)]
Front(s) == SubSeq(s, 1, Len(s) - 1)

\* A tensor is its shape and its elements in row-major order.
NoTensor == [shape |-> <<0>>, data |-> <<>>]

\* An audio file on disk: mono, `len` samples, at `rate` Hz.  Sample k of a
\* file holds the value k, so every position of the file is recognisable.
Files == [len : 0..MaxLen, rate : Rates]

\* torchaudio.load: a [channels, time] tensor and the file's sample rate
TorchaudioLoad(f) ==
    [audio |-> [shape |-> <<1, f.len>>, data |-> [k \in 1..f.len |-> k]],
     sample_rate |-> f.rate]

\* torch.nn.functional.pad(t, (0, p), "constant"): p zeros appended to the
\* last dimension of every row
FPadRight(t, p) ==
    LET n == Last(t.shape)
        rows == Prod(Front(t.shape))
        m == n + p
    IN [shape |-> [t.shape EXCEPT ![Len(t.shape)] = m],
        data |-> [k \in 1..(rows * m) |->
                    LET r == (k - 1) \div m
                        c == (k - 1) % m
                    IN IF c < n THEN t.data[r * n + c + 1] ELSE 0]]

\* Tensor.squeeze(): every dimension of size 1 is removed
Squeeze(t) == [shape |-> SelectSeq(t.shape, LAMBDA d : d # 1), data |-> t.data]

\* t[a:b]: a Python slice of the first dimension (bounds are clamped)
SliceFirst(t, a, b) ==
    LET d0 == t.shape[1]
        lo == Min(a, d0)
        hi == Min(b, d0)
        cnt == Max(hi - lo, 0)
        rowsz == Prod(Tail(t.shape))
    IN [shape |-> [t.shape EXCEPT ![1] = cnt],
        data |-> SubSeq(t.data, lo * rowsz + 1, (lo + cnt) * rowsz)]

\* np.random.randint(low, high): an integer of [low, high)
RandInt(low, high) == low..(high - 1)

\* ------------------------------------------------------------- AudioDataset
\* number of zeros load_audio_to_torch appends in evaluation mode
EvalPadCeilOnly(n) == ((n + hop_length - 1) \div hop_length) * hop_length - n
EvalPad(n) == (n \div hop_length + 1) * hop_length - n

LoadAudioToTorch(f) ==
    LET ld == TorchaudioLoad(f)
        audio == IF ~training
                 THEN FPadRight(ld.audio, EvalPad(Last(ld.audio.shape)))
                 ELSE ld.audio
    IN [audio |-> Squeeze(audio), sample_rate |-> ld.sample_rate]

Return(t, start) == [status |-> "ok", err |-> "", value |-> t, start |-> start]
Raise(e) == [status |-> "error", err |-> e, value |-> NoTensor, start |-> -1]

\* the assertion of __getitem__
SampleRateUnchecked(sr) == TRUE
SampleRateOk(sr) == sr = sample_rate

\* the training crop audio[audio_start : audio_start + segment_length]
CropNoOffset(audio, audio_start) == SliceFirst(audio, audio_start, segment_length)
Crop(audio, audio_start) == SliceFirst(audio, audio_start, audio_start + segment_length)

\* Every outcome __getitem__(index) can have: the item, or the exception.
\* shape[-1] of a tensor without dimensions raises IndexError.
GetItemOutcomes(index) ==
    LET ld == LoadAudioToTorch(audio_paths[index + 1])
        audio == ld.audio
    IN IF ~SampleRateOk(ld.sample_rate) THEN {Raise("AssertionError")}
       ELSE IF ~training THEN {Return(audio, -1)}
       ELSE IF Len(audio.shape) = 0 THEN {Raise("IndexError")}
       ELSE IF Last(audio.shape) > segment_length
            THEN LET max_audio_start == Last(audio.shape) - segment_length
                 IN {Return(Crop(audio, a), a) : a \in RandInt(0, max_audio_start)}
            ELSE {Return(FPadRight(audio, segment_length - Last(audio.shape)), -1)}

DatasetLen == Len(audio_paths)

\* np.random.choice(range(n), size=size, replace=False): the index arrays
\* it can return; none when size > n, where it raises ValueError
RandomChoiceWithReplacement(n, size) == [1..size -> 0..(n - 1)]
RandomChoice(n, size) ==
    {s \in [1..size -> 0..(n - 1)] : \A a, b \in 1..size : a # b => s[a] # s[b]}

\* the loop of sample_test_batch over the drawn indices: the batch, or the
\* exception of the first item that fails
RECURSIVE BatchOutcomes(_)
BatchOutcomes(idx) ==
    IF idx = <<>> THEN {[status |-> "ok", err |-> "", value |-> <<>>]}
    ELSE UNION {
        IF o.status = "error"
        THEN {[status |-> "error", err |-> o.err, value |-> <<>>]}
        ELSE {IF r.status = "error" THEN r
              ELSE [r EXCEPT !.value = <<o.value>> \o r.value] :
                  r \in BatchOutcomes(Tail(idx))}
        : o \in GetItemOutcomes(Head(idx))}

\* ------------------------------------------------------ MelSpectrogramFixed
\* frames torchaudio's Spectrogram (center=True, pad=0) emits for n samples
SpectrogramFrames(n) == 1 + n \div hop_length

\* mel[..., :-1]
DropLastFrameKeep(frames) == frames
DropLastFrame(frames) == Max(frames - 1, 0)

MelFrames(n, remove_last) ==
    IF remove_last THEN DropLastFrame(SpectrogramFrames(n)) ELSE SpectrogramFrames(n)

\* -------------------------------------------------------------- the calls
NoResult ==
    [op |-> "none", status |-> "none", err |-> "", index |-> -1, start |-> -1,
     size |-> -1, idx |-> <<>>, value |-> <<>>, frames |-> -1, remove_last |-> FALSE]

IdleInference ==
    /\ pc = "idle" /\ filelist = <<>> /\ i = 0 /\ rtfs = <<>> /\ events = <<>>
    /\ fs = <<>> /\ schedule = <<>> /\ noise_schedule = <<>> /\ config = <<>>
    /\ error = "none"

\* AudioDataset.__init__
Init ==
    /\ training \in BOOLEAN
    /\ hop_length \in 1..MaxHop
    /\ segment_length \in (IF training THEN 1..MaxSeg ELSE {0})
    /\ sample_rate \in ConfigRates
    /\ audio_paths \in UNION {[1..n -> Files] : n \in 0..MaxFiles}
    /\ result = NoResult
    /\ IdleInference

GetItem ==
    \E index \in 0..(DatasetLen - 1) :
        \E o \in GetItemOutcomes(index) :
            /\ result' = [NoResult EXCEPT !.op = "getitem", !.status = o.status,
                              !.err = o.err, !.index = index, !.start = o.start,
                              !.value = IF o.status = "ok" THEN <<o.value>> ELSE <<>>]
            /\ UNCHANGED <<training, hop_length, segment_length, sample_rate, audio_paths>>
            /\ UNCHANGED inferVars

SampleTestBatch ==
    \E size \in 0..(DatasetLen + 1) :
        /\ IF RandomChoice(DatasetLen, size) = {}
           THEN result' = [NoResult EXCEPT !.op = "batch", !.status = "error",
                               !.err = "ValueError", !.size = size]
           ELSE \E idx \in RandomChoice(DatasetLen, size) :
                    \E b \in BatchOutcomes(idx) :
                        result' = [NoResult EXCEPT !.op = "batch", !.status = b.status,
                                       !.err = b.err, !.size = size, !.idx = idx,
                                       !.value = b.value]
        /\ UNCHANGED <<training, hop_length, segment_length, sample_rate, audio_paths>>
        /\ UNCHANGED inferVars

\* MelSpectrogramFixed.forward on the item __getitem__ just returned
MelForward ==
    /\ result.op = "getitem"
    /\ result.status = "ok"
    /\ \E remove_last \in BOOLEAN :
        LET audio == result.value[1]
        IN result' =
            IF Len(audio.shape) = 0
            THEN [result EXCEPT !.op = "mel", !.status = "error",
                      !.err = "RuntimeError", !.remove_last = remove_last]
            ELSE [result EXCEPT !.op = "mel", !.remove_last = remove_last,
                      !.frames = MelFrames(Last(audio.shape), remove_last)]
    /\ UNCHANGED <<training, hop_length, segment_length, sample_rate, audio_paths>>
    /\ UNCHANGED inferVars

Next == GetItem \/ SampleTestBatch \/ MelForward

Spec == Init /\ [][Next]_vars

\* ---------------------------------------------------------- inference script
\* A path is its file name split at the dots: <<"a", "pt">> is a.pt.
Paths == {<<"a">>, <<"a", "pt">>, <<"a", "npy">>, <<"a", "wav">>,
          <<"b", "pt">>, <<"a", "mel", "pt">>}

\* Path(p).with_suffix(".wav"): the last extension replaced, or .wav added
\* to a name without one
WithSuffixAppended(p) == Append(p, "wav")
WithSuffixWav(p) ==
    IF Len(p) > 1 THEN [p EXCEPT ![Len(p)] = "wav"] ELSE Append(p, "wav")

AllPaths == Paths \cup {WithSuffixWav(p) : p \in Paths}

\* noise schedules: sequences of noise levels
Schedules == {<<1>>, <<2>>, <<1, 2>>}
NIters == {1, 2}
BetasRanges == {<<1, 2>>}

\* WaveGrad.set_new_noise_schedule(init_kwargs={steps, start, end}): the
\* schedule interpolated from start to end over `steps` steps
DefaultSchedule(steps, start, end) ==
    [k \in 1..steps |-> start + ((end - start) * (k - 1)) \div Max(steps - 1, 1)]

\* the statement that follows `label` in the body of the loop over the files
AfterSaveBeforeTimerEnd(label) ==
    CASE label = "load" -> "t_start"
      [] label = "t_start" -> "forward"
      [] label = "forward" -> "save"
      [] label = "save" -> "t_end"
      [] label = "t_end" -> "rtf"
After(label) ==
    CASE label = "load" -> "t_start"
      [] label = "t_start" -> "forward"
      [] label = "forward" -> "t_end"
      [] label = "t_end" -> "save"
      [] label = "save" -> "rtf"

\* where the loop goes once the body is finished for file k - 1
LoopTo(k) == IF k > Len(filelist) THEN "summary" ELSE "load"

\* an exception raised in the loop body: nothing catches it, the script ends
SwallowAndContinue(step) == [pc |-> LoopTo(i + 1), i |-> i + 1, error |-> "none"]
Propagate(step) == [pc |-> "failed", i |-> i, error |-> step]

Fail(step) ==
    /\ pc' = Propagate(step).pc
    /\ i' = Propagate(step).i
    /\ error' = Propagate(step).error

Event(kind) == [file |-> i, kind |-> kind]

IdleDataset ==
    /\ training = FALSE /\ hop_length = 1 /\ segment_length = 0
    /\ sample_rate \in ConfigRates /\ audio_paths = <<>> /\ result = NoResult

\* the script after its arguments and configuration are read and the model
\* is constructed
InitInference ==
    /\ pc = "set_default_schedule"
    /\ filelist \in UNION {[1..n -> Paths] : n \in 0..MaxFiles}
    /\ fs = [p \in AllPaths |->
                [kind |-> IF \E k \in 1..Len(filelist) : filelist[k] = p
                          THEN "mel" ELSE "absent",
                 writers |-> <<>>]]
    /\ noise_schedule \in Schedules
    /\ config \in [n_iter : NIters, betas_range : BetasRanges]
    /\ schedule = <<>>
    /\ i = 0 /\ rtfs = <<>> /\ events = <<>> /\ error = "none"
    /\ IdleDataset

SetDefaultSchedule ==
    /\ pc = "set_default_schedule"
    /\ schedule' = DefaultSchedule(config.n_iter, config.betas_range[1],
                                   config.betas_range[2])
    /\ pc' = "load_checkpoint"
    /\ UNCHANGED <<filelist, i, rtfs, events, fs, noise_schedule, config, error>>
    /\ UNCHANGED dataVars

\* torch.load + model.load_state_dict: the weights are loaded; the script
\* assigns no schedule here
LoadCheckpoint ==
    /\ pc = "load_checkpoint"
    /\ \/ /\ pc' = "parse_filelist"
          /\ UNCHANGED <<i, error>>
       \/ Fail("load_checkpoint")
    /\ UNCHANGED <<filelist, rtfs, events, fs, schedule, noise_schedule, config>>
    /\ UNCHANGED dataVars

ParseFilelist ==
    /\ pc = "parse_filelist"
    /\ rtfs' = <<>>
    /\ i' = 1
    /\ pc' = LoopTo(1)
    /\ UNCHANGED <<filelist, events, fs, schedule, noise_schedule, config, error>>
    /\ UNCHANGED dataVars

\* mel = torch.load(mel_path): fails unless the file holds a tensor
LoadMel ==
    /\ pc = "load"
    /\ \/ /\ fs[filelist[i]].kind = "mel"
          /\ events' = Append(events, Event("load"))
          /\ pc' = After("load")
          /\ UNCHANGED <<i, error>>
       \/ /\ Fail("load")
          /\ UNCHANGED events
    /\ UNCHANGED <<filelist, rtfs, fs, schedule, noise_schedule, config>>
    /\ UNCHANGED dataVars

TimerStart ==
    /\ pc = "t_start"
    /\ events' = Append(events, Event("t_start"))
    /\ pc' = After("t_start")
    /\ UNCHANGED <<filelist, i, rtfs, fs, schedule, noise_schedule, config, error>>
    /\ UNCHANGED dataVars

Forward ==
    /\ pc = "forward"
    /\ \/ /\ events' = Append(events, Event("forward"))
          /\ pc' = After("forward")
          /\ UNCHANGED <<i, error>>
       \/ /\ Fail("forward")
          /\ UNCHANGED events
    /\ UNCHANGED <<filelist, rtfs, fs, schedule, noise_schedule, config>>
    /\ UNCHANGED dataVars

TimerEnd ==
    /\ pc = "t_end"
    /\ events' = Append(events, Event("t_end"))
    /\ pc' = After("t_end")
    /\ UNCHANGED <<filelist, i, rtfs, fs, schedule, noise_schedule, config, error>>
    /\ UNCHANGED dataVars

\* torchaudio.save(str(Path(mel_path).with_suffix(".wav")), outputs, ...)
Save ==
    /\ pc = "save"
    /\ \/ /\ LET save_path == WithSuffixWav(filelist[i])
             IN fs' = [fs EXCEPT ![save_path] =
                          [kind |-> "audio", writers |-> Append(@.writers, i)]]
          /\ events' = Append(events, Event("save"))
          /\ pc' = After("save")
          /\ UNCHANGED <<i, error>>
       \/ /\ Fail("save")
          /\ UNCHANGED <<events, fs>>
    /\ UNCHANGED <<filelist, rtfs, schedule, noise_schedule, config>>
    /\ UNCHANGED dataVars

\* rtf = compute_rtf(...); rtfs.append(rtf); the loop moves to the next file
ComputeRtf ==
    /\ pc = "rtf"
    /\ \/ /\ rtfs' = Append(rtfs, i)
          /\ events' = Append(events, Event("rtf"))
          /\ i' = i + 1
          /\ pc' = LoopTo(i + 1)
          /\ UNCHANGED error
       \/ /\ Fail("rtf")
          /\ UNCHANGED <<events, rtfs>>
    /\ UNCHANGED <<filelist, fs, schedule, noise_schedule, config>>
    /\ UNCHANGED dataVars

\* show_message("Done. RTF estimate: ...")
Summary ==
    /\ pc = "summary"
    /\ pc' = "done"
    /\ UNCHANGED <<filelist, i, rtfs, events, fs, schedule, noise_schedule, config, error>>
    /\ UNCHANGED dataVars

NextInference ==
    \/ SetDefaultSchedule \/ LoadCheckpoint \/ ParseFilelist
    \/ LoadMel \/ TimerStart \/ Forward \/ TimerEnd \/ Save \/ ComputeRtf
    \/ Summary

SpecInference == InitInference /\ [][NextInference]_vars

\* ------------------------------------------------- properties of the dataset
\* the file a call on `index` reads
FileOf(index) == audio_paths[index + 1]
IsDistinct(s) == \A a, b \in 1..Len(s) : a # b => s[a] # s[b]

\* C1: in training mode, for an audio longer than segment_length, the crop
\* start is drawn from the whole range [0, L - segment_length]: every offset
\* of the range, the last one included, is a possible outcome and no other is.
C1_EveryOffsetPossible ==
    (result.op = "getitem" /\ training /\ result.status = "ok"
         /\ FileOf(result.index).len > segment_length)
    => /\ result.start \in 0..(FileOf(result.index).len - segment_length)
       /\ {o.start : o \in GetItemOutcomes(result.index)}
              = 0..(FileOf(result.index).len - segment_length)

C3_EvalPadding ==
    (result.op = "getitem" /\ ~training) =>
        LET L == FileOf(result.index).len IN
        /\ FileOf(result.index).rate = sample_rate => result.status = "ok"
        /\ result.status = "ok" =>
              LET t == result.value[1]
                  n == Len(t.data)
              IN /\ n = (L \div hop_length + 1) * hop_length
                 /\ Prod(t.shape) = n
                 /\ n % hop_length = 0
                 /\ n >= L
                 /\ (n - L) \in 1..hop_length
                 /\ \A k \in 1..L : t.data[k] = k
                 /\ \A k \in (L + 1)..n : t.data[k] = 0
                 /\ t = LoadAudioToTorch(FileOf(result.index)).audio

C3_Witness ==
    /\ result.op = "getitem" /\ ~training /\ result.status = "ok"
    /\ hop_length = 2
    /\ FileOf(result.index).len = 2
    /\ Len(result.value[1].data) = 4

\* C4: with remove_last, the mel spectrogram of an evaluation-mode padded
\* audio has padded_length / hop_length = L // hop_length + 1 frames.
C4_MelFrameCount ==
    (result.op = "mel" /\ ~training /\ result.status = "ok" /\ result.remove_last) =>
        LET L == FileOf(result.index).len
            n == Len(result.value[1].data)
        IN /\ result.frames * hop_length = n
           /\ result.frames = L \div hop_length + 1

C4_Witness ==
    /\ result.op = "mel" /\ ~training /\ result.status = "ok" /\ result.remove_last
    /\ hop_length = 2
    /\ FileOf(result.index).len = 3
    /\ result.frames = 2

\* C5: a file whose sample rate differs from the configured one makes
\* __getitem__ fail, in either mode, with no item returned; a test batch that
\* draws such a file fails as a whole, with no partial batch.
C5_SampleRateMismatchFails ==
    /\ result.op = "getitem" =>
          /\ FileOf(result.index).rate # sample_rate =>
                /\ result.status = "error"
                /\ result.err = "AssertionError"
                /\ result.value = <<>>
          /\ result.status = "ok" => FileOf(result.index).rate = sample_rate
    /\ (result.op = "batch" /\ result.idx # <<>>) =>
          /\ (\E k \in 1..Len(result.idx) : FileOf(result.idx[k]).rate # sample_rate) =>
                /\ result.status = "error"
                /\ result.value = <<>>
          /\ result.status = "ok" =>
                \A k \in 1..Len(result.idx) : FileOf(result.idx[k]).rate = sample_rate

C5_Witness ==
    /\ result.op = "batch" /\ result.status = "error"
    /\ result.err = "AssertionError"
    /\ Len(result.idx) = 2
    /\ FileOf(result.idx[1]).rate = sample_rate
    /\ FileOf(result.idx[1]).len # 1
    /\ FileOf(result.idx[2]).rate # sample_rate
    /\ result.value = <<>>

\* C6: sample_test_batch(K) on N files returns, for K <= N, exactly K items:
\* those of __getitem__ on K pairwise distinct indices of [0, N-1], in the
\* order drawn (it fails only if one of those __getitem__ calls fails); for
\* K > N it fails and returns no batch.
C6_TestBatch ==
    result.op = "batch" =>
        /\ result.size > DatasetLen =>
              /\ result.status = "error"
              /\ result.err = "ValueError"
              /\ result.value = <<>>
        /\ result.status = "ok" =>
              /\ result.size <= DatasetLen
              /\ Len(result.idx) = result.size
              /\ Len(result.value) = result.size
              /\ IsDistinct(result.idx)
              /\ \A k \in 1..Len(result.idx) : result.idx[k] \in 0..(DatasetLen - 1)
              /\ \A k \in 1..Len(result.idx) :
                    \E o \in GetItemOutcomes(result.idx[k]) :
                        o.status = "ok" /\ o.value = result.value[k]
        /\ (result.size <= DatasetLen /\ result.status = "error") =>
              \E k \in 1..Len(result.idx) :
                  \E o \in GetItemOutcomes(result.idx[k]) :
                      o.status = "error" /\ o.err = result.err

C6_Witness ==
    /\ result.op = "batch" /\ result.status = "ok"
    /\ result.size = 2
    /\ result.idx = <<1, 0>>
    /\ FileOf(0).len # FileOf(1).len
    /\ Len(result.value) = 2
    /\ result.value[1] # result.value[2]

\* ---------------------------------------- properties of the inference script
\* what the loop body logs for file k when nothing fails
BodyEvents(k) ==
    <<[file |-> k, kind |-> "load"], [file |-> k, kind |-> "t_start"],
      [file |-> k, kind |-> "forward"], [file |-> k, kind |-> "t_end"],
      [file |-> k, kind |-> "save"], [file |-> k, kind |-> "rtf"]>>

RECURSIVE RunEvents(_)
RunEvents(n) == IF n = 0 THEN <<>> ELSE RunEvents(n - 1) \o BodyEvents(n)

\* number of events of `kind` among the first n logged
CountKind(kind, n) == Cardinality({k \in 1..n : events[k].kind = kind})

\* C7: for every file the order is read, timer start, forward, timer end,
\* write; no file read or write lies between a timer start and its timer
\* end, and no step of another file lies inside a file's timed interval.
C7_IoOutsideTimedRegion ==
    /\ Len(events) <= Len(RunEvents(Len(filelist)))
    /\ events = SubSeq(RunEvents(Len(filelist)), 1, Len(events))
    /\ \A k \in 1..Len(events) :
          events[k].kind \in {"load", "save"} =>
              CountKind("t_start", k - 1) = CountKind("t_end", k - 1)
    /\ \A k \in 1..Len(events) :
          events[k].kind = "t_end" =>
              /\ k >= 3
              /\ events[k - 1] = [file |-> events[k].file, kind |-> "forward"]
              /\ events[k - 2] = [file |-> events[k].file, kind |-> "t_start"]

C7_Witness ==
    /\ pc = "done"
    /\ Len(filelist) = 2
    /\ Len(events) = 12
    /\ events[5] = [file |-> 1, kind |-> "save"]
    /\ events[7] = [file |-> 2, kind |-> "load"]

\* the path without its last extension
PathStem(p) == IF Len(p) > 1 THEN SubSeq(p, 1, Len(p) - 1) ELSE p
OutputOf(k) == WithSuffixWav(filelist[k])

\* C8 as stated: after a complete run every input has its output, distinct
\* input paths have distinct output files, and no output is written over an
\* input conditioning file.
C8_DistinctOutputPerInput ==
    pc = "done" =>
        /\ \A a \in 1..Len(filelist) : fs[OutputOf(a)].kind = "audio"
        /\ \A a, b \in 1..Len(filelist) :
              filelist[a] # filelist[b] => OutputOf(a) # OutputOf(b)
        /\ \A a, b \in 1..Len(filelist) : OutputOf(a) # filelist[b]

\* C8 as amended: after a complete run every list entry has written its
\* waveform to its input path with the last extension replaced by .wav (or
\* .wav added when there is none); two inputs share an output file exactly
\* when they are equal up to that last extension, the later entry
\* overwriting the earlier; and an output lands on an input conditioning
\* file only when that input's own extension is .wav.
C8_OutputPerStem ==
    pc = "done" =>
        /\ \A a \in 1..Len(filelist) :
              /\ fs[OutputOf(a)].kind = "audio"
              /\ Last(OutputOf(a)) = "wav"
              /\ PathStem(OutputOf(a)) = PathStem(filelist[a])
              /\ fs[OutputOf(a)].writers =
                    SelectSeq([k \in 1..Len(filelist) |-> k],
                              LAMBDA k : OutputOf(k) = OutputOf(a))
        /\ \A a, b \in 1..Len(filelist) :
              (OutputOf(a) = OutputOf(b)) <=> (PathStem(filelist[a]) = PathStem(filelist[b]))
        /\ \A a, b \in 1..Len(filelist) :
              OutputOf(a) = filelist[b] =>
                  (Len(filelist[b]) > 1 /\ Last(filelist[b]) = "wav")
        /\ \A p \in AllPaths :
              fs[p].kind = "audio" => \E a \in 1..Len(filelist) : p = OutputOf(a)

C8_Witness ==
    /\ pc = "done"
    /\ filelist = << <<"a", "pt">>, <<"a", "npy">> >>
    /\ fs[<<"a", "wav">>].writers = <<1, 2>>

\* C9: the schedule of --noise_schedule_path is the one in effect on the
\* model during every model.forward call of the run.
C9_ExternalScheduleInEffect ==
    pc = "forward" => schedule = noise_schedule

\* C10: a failure while a file is processed ends the run as failed, and the
\* final summary is emitted only when every file of the list was processed
\* exactly once, in list order, with one RTF value per file.
C10_NoSilentSkip ==
    /\ (error # "none") <=> (pc = "failed")
    /\ pc \in {"load", "t_start", "forward", "t_end", "save", "rtf"} =>
          /\ i \in 1..Len(filelist)
          /\ rtfs = [k \in 1..(i - 1) |-> k]
    /\ pc \in {"summary", "done"} =>
          /\ error = "none"
          /\ Len(rtfs) = Len(filelist)
          /\ rtfs = [k \in 1..Len(filelist) |-> k]
          /\ events = RunEvents(Len(filelist))

C10_Witness ==
    /\ pc = "done"
    /\ Len(filelist) = 2
    /\ Len(rtfs) = 2
    /\ error = "none"

====
